---- MODULE Spec2Model ----
(***************************************************************************)
(* Model of utils_nlp/models/mtdnn/process_mtdnn.py:                       *)
(*   MTDNNDataProcess      task registration, config derivation, dev/test  *)
(*                         dataloader binding                              *)
(*   MTDNNPipelineProcess  fit / predict / close_connections               *)
(*                                                                         *)
(* Python strings that the code splits are sequences of one-character      *)
(* strings; Python lists are sequences (index i of Python is i+1 here);    *)
(* Python dicts are functions whose DOMAIN is the set of keys.             *)
(***************************************************************************)
EXTENDS Integers, Sequences, FiniteSets, TLC

VARIABLES dp, train_datasets, dev_dataloaders_list, test_dataloaders_list,
          pc, idx, last, pp, run

vars == <<dp, train_datasets, dev_dataloaders_list, test_dataloaders_list,
          pc, idx, last, pp, run>>

(* ------------------------------ bounds --------------------------------- *)

MaxTrain == 3

MaxAnswerOpt == 3

MaxTrainDT == 2

MaxTest == 2

MaxEpochs == 2

MaxBatches == 2

MaxPer == 2

MaxGas == 2

MaxCalls == 3

(* ------------------------- strings and lists --------------------------- *)

None == [none |-> TRUE]

RECURSIVE Split0(_)
Split0(s) ==
    IF s = <<>> THEN <<>>
    ELSE IF Head(s) = "_" THEN <<>>
    ELSE <<Head(s)>> \o Split0(Tail(s))

At(list, i) == list[i + 1]

SetAt(list, i, v) == [list EXCEPT ![i + 1] = v]

Min(a, b) == IF a <= b THEN a ELSE b

Range(list) == {list[k] : k \in 1..Len(list)}

ListsUpTo(S, n) == UNION {[1..k -> S] : k \in 0..n}

(* ----------------------- inputs: task definitions ---------------------- *)

DsA == <<"a">>

DsAm == <<"a", "_", "m">>

DsB == <<"b">>

DsC == <<"c">>

DsD == <<"d">>

DsX == <<"x">>

DatasetIds == {DsA, DsAm, DsB, DsC, DsD, DsX}

task_defs ==
    [n_class_map    |-> (DsA :> 3) @@ (DsB :> 3) @@ (DsC :> 2) @@ (DsD :> 3),
     data_type_map  |-> (DsA :> "PremiseAndOneHypothesis") @@ (DsB :> "PremiseOnly")
                        @@ (DsC :> "PremiseAndOneHypothesis") @@ (DsD :> "PremiseOnly"),
     task_type_map  |-> (DsA :> "Classification") @@ (DsB :> "Span")
                        @@ (DsC :> "Ranking") @@ (DsD :> "Classification"),
     enable_san_map |-> (DsA :> TRUE) @@ (DsB :> FALSE) @@ (DsC :> TRUE) @@ (DsD :> TRUE),
     loss_map       |-> (DsA :> "CeCriterion") @@ (DsB :> "SpanCeCriterion")
                        @@ (DsC :> "RankCeCriterion") @@ (DsD :> "CeCriterion"),
     kd_loss_map    |-> (DsA :> "MseCriterion") @@ (DsB :> "KlCriterion")
                        @@ (DsC :> "MseCriterion") @@ (DsD :> "SymKlCriterion"),
     dropout_p_map  |-> (DsB :> "p05") @@ (DsC :> "p30")]

MtlOpts == {0, 1}

(* --------------------------- MTDNNDataProcess -------------------------- *)

NewDataProcess(config, train_datasets_list, test_datasets_list) ==
    [config |-> config,
     train_datasets |-> train_datasets_list,
     test_datasets |-> test_datasets_list,
     tasks |-> <<>>,
     tasks_class |-> <<>>,
     nclass_list |-> <<>>,
     decoder_opts |-> <<>>,
     task_types |-> <<>>,
     dropout_list |-> <<>>,
     loss_types |-> <<>>,
     kd_loss_types |-> <<>>]

NewConfig(mtl_opt, answer_opt) ==
    [mtl_opt |-> mtl_opt,
     answer_opt |-> answer_opt,
     dropout_p |-> "p10",
     decoder_opts |-> <<>>,
     task_types |-> <<>>,
     tasks_dropout_p |-> <<>>,
     loss_types |-> <<>>,
     kd_loss_types |-> <<>>,
     tasks_nclass_list |-> <<>>,
     writes |-> 0]

DictLen(d) == Cardinality(DOMAIN d)

generate_decoder_opt_OffByOne(enable_san, max_opt) ==
    IF enable_san /\ max_opt <= 3 THEN max_opt ELSE 0

generate_decoder_opt(enable_san, max_opt) ==
    IF enable_san /\ max_opt < 3 THEN max_opt ELSE 0

TrainTaskId_AlwaysShared(s, nclass) ==
    IF nclass \in DOMAIN s.tasks_class
    THEN s.tasks_class[nclass]
    ELSE DictLen(s.tasks_class)

TrainTaskId(s, nclass) ==
    IF s.config.mtl_opt > 0
    THEN IF nclass \in DOMAIN s.tasks_class
         THEN s.tasks_class[nclass]
         ELSE DictLen(s.tasks_class)
    ELSE DictLen(s.tasks)

ReconcileDecoderOpts_AlwaysAppends(decoder_opts, task_id, dopt) ==
    Append(decoder_opts, dopt)

ReconcileDecoderOpts_LastWins(decoder_opts, task_id, dopt) ==
    IF task_id < Len(decoder_opts)
    THEN SetAt(decoder_opts, task_id, dopt)
    ELSE Append(decoder_opts, dopt)

ReconcileDecoderOpts(decoder_opts, task_id, dopt) ==
    IF task_id < Len(decoder_opts)
    THEN SetAt(decoder_opts, task_id, Min(At(decoder_opts, task_id), dopt))
    ELSE Append(decoder_opts, dopt)

RegisterTask_AlwaysAppends(s, prefix, nclass) ==
    IF prefix \notin DOMAIN s.tasks
    THEN [s EXCEPT !.tasks = s.tasks @@ (prefix :> DictLen(s.tasks)),
                   !.nclass_list = Append(s.nclass_list, nclass)]
    ELSE s

RegisterTask(s, prefix, nclass) ==
    IF prefix \notin DOMAIN s.tasks
    THEN [s EXCEPT !.tasks = s.tasks @@ (prefix :> DictLen(s.tasks)),
                   !.nclass_list = IF s.config.mtl_opt < 1
                                   THEN Append(s.nclass_list, nclass)
                                   ELSE s.nclass_list]
    ELSE s

RegisterTaskClass_MergesEagerly(s, nclass) ==
    LET c == [s.config EXCEPT !.task_types = s.task_types,
                              !.loss_types = s.loss_types,
                              !.writes = s.config.writes + 1]
    IN  IF nclass \notin DOMAIN s.tasks_class
        THEN [s EXCEPT !.tasks_class = s.tasks_class @@ (nclass :> DictLen(s.tasks_class)),
                       !.nclass_list = IF s.config.mtl_opt > 0
                                       THEN Append(s.nclass_list, nclass)
                                       ELSE s.nclass_list,
                       !.config = c]
        ELSE [s EXCEPT !.config = c]

RegisterTaskClass(s, nclass) ==
    IF nclass \notin DOMAIN s.tasks_class
    THEN [s EXCEPT !.tasks_class = s.tasks_class @@ (nclass :> DictLen(s.tasks_class)),
                   !.nclass_list = IF s.config.mtl_opt > 0
                                   THEN Append(s.nclass_list, nclass)
                                   ELSE s.nclass_list]
    ELSE s

DropoutFor(s, prefix) ==
    IF prefix \in DOMAIN task_defs.dropout_p_map
    THEN task_defs.dropout_p_map[prefix]
    ELSE s.config.dropout_p

MTDNNSingleTaskDataset(dataset, split, is_train, task_id, task_type, data_type) ==
    [dataset |-> dataset, split |-> split, is_train |-> is_train,
     task_id |-> task_id, task_type |-> task_type, data_type |-> data_type]

AlreadyRegistered_WholeName(s, dataset) == dataset \in DOMAIN s.tasks

AlreadyRegistered(s, dataset) == Split0(dataset) \in DOMAIN s.tasks

(* One iteration of the train loop for a dataset that is neither skipped   *)
(* nor rejected: the new object state and the dataset that was loaded.     *)
ProcessTrainDataset(s, dataset) ==
    LET prefix == Split0(dataset)
        data_type == task_defs.data_type_map[prefix]
        nclass == task_defs.n_class_map[prefix]
        task_id == TrainTaskId(s, nclass)
        task_type == task_defs.task_type_map[prefix]
        dopt == generate_decoder_opt(task_defs.enable_san_map[prefix],
                                     s.config.answer_opt)
        s1 == [s EXCEPT !.decoder_opts = ReconcileDecoderOpts(s.decoder_opts, task_id, dopt),
                        !.task_types = Append(s.task_types, task_type),
                        !.loss_types = Append(s.loss_types, task_defs.loss_map[prefix]),
                        !.kd_loss_types = Append(s.kd_loss_types,
                                                 task_defs.kd_loss_map[prefix])]
        s2 == RegisterTask(s1, prefix, nclass)
        s3 == RegisterTaskClass(s2, nclass)
        s4 == [s3 EXCEPT !.dropout_list = Append(s3.dropout_list, DropoutFor(s3, prefix))]
    IN  [self |-> s4,
         loaded |-> MTDNNSingleTaskDataset(dataset, "train", TRUE,
                                           task_id, task_type, data_type),
         call |-> [enable_san |-> task_defs.enable_san_map[prefix],
                   max_opt |-> s.config.answer_opt,
                   dopt |-> dopt]]

update_config(s) ==
    [s.config EXCEPT !.decoder_opts = s.decoder_opts,
                     !.task_types = s.task_types,
                     !.tasks_dropout_p = s.dropout_list,
                     !.loss_types = s.loss_types,
                     !.kd_loss_types = s.kd_loss_types,
                     !.tasks_nclass_list = s.nclass_list,
                     !.writes = s.config.writes + 1]

(* ------------------- actions: MTDNNDataProcess.__init__ ---------------- *)

NoLast == [kind |-> "none"]

NoPipeline == [state |-> "absent"]

NoRun == [state |-> "absent"]

TrainPhaseTestLists == {<<>>, <<DsAm>>}

Init ==
    /\ \E mtl_opt \in MtlOpts, answer_opt \in 0..MaxAnswerOpt,
          trains \in ListsUpTo(DatasetIds, MaxTrain),
          tests \in TrainPhaseTestLists :
            dp = NewDataProcess(NewConfig(mtl_opt, answer_opt), trains, tests)
    /\ train_datasets = <<>>
    /\ dev_dataloaders_list = <<>>
    /\ test_dataloaders_list = <<>>
    /\ pc = "init"
    /\ idx = 0
    /\ last = NoLast
    /\ pp = NoPipeline
    /\ run = NoRun

CheckArgsFail ==
    /\ pc = "init"
    /\ (Len(dp.train_datasets) < 1 \/ Len(dp.test_datasets) < 1)
    /\ pc' = "AssertionError"
    /\ last' = [kind |-> "assert_args"]
    /\ UNCHANGED <<dp, train_datasets, dev_dataloaders_list, test_dataloaders_list,
                   idx, pp, run>>

CheckArgs ==
    /\ pc = "init"
    /\ Len(dp.train_datasets) >= 1
    /\ Len(dp.test_datasets) >= 1
    /\ pc' = "train"
    /\ idx' = 0
    /\ last' = [kind |-> "args_ok"]
    /\ UNCHANGED <<dp, train_datasets, dev_dataloaders_list, test_dataloaders_list,
                   pp, run>>

TrainSkip ==
    /\ pc = "train"
    /\ idx < Len(dp.train_datasets)
    /\ AlreadyRegistered(dp, At(dp.train_datasets, idx))
    /\ idx' = idx + 1
    /\ last' = [kind |-> "train_skip", dataset |-> At(dp.train_datasets, idx)]
    /\ UNCHANGED <<dp, train_datasets, dev_dataloaders_list, test_dataloaders_list,
                   pc, pp, run>>

TrainAssertFail ==
    /\ pc = "train"
    /\ idx < Len(dp.train_datasets)
    /\ ~AlreadyRegistered(dp, At(dp.train_datasets, idx))
    /\ LET prefix == Split0(At(dp.train_datasets, idx))
       IN  /\ (prefix \notin DOMAIN task_defs.n_class_map
               \/ prefix \notin DOMAIN task_defs.data_type_map)
    /\ pc' = "AssertionError"
    /\ last' = [kind |-> "train_assert", dataset |-> At(dp.train_datasets, idx)]
    /\ UNCHANGED <<dp, train_datasets, dev_dataloaders_list, test_dataloaders_list,
                   idx, pp, run>>

TrainRegister ==
    /\ pc = "train"
    /\ idx < Len(dp.train_datasets)
    /\ LET dataset == At(dp.train_datasets, idx)
           prefix == Split0(dataset)
       IN  /\ ~AlreadyRegistered(dp, dataset)
           /\ prefix \in DOMAIN task_defs.n_class_map
           /\ prefix \in DOMAIN task_defs.data_type_map
           /\ LET r == ProcessTrainDataset(dp, dataset)
              IN  /\ dp' = r.self
                  /\ train_datasets' = Append(train_datasets, r.loaded)
                  /\ last' = [kind |-> "train_register", dataset |-> dataset,
                              task_id |-> r.loaded.task_id, call |-> r.call]
    /\ idx' = idx + 1
    /\ UNCHANGED <<dev_dataloaders_list, test_dataloaders_list, pc, pp, run>>

TrainFinish ==
    /\ pc = "train"
    /\ idx = Len(dp.train_datasets)
    /\ dp' = [dp EXCEPT !.config = update_config(dp)]
    /\ pc' = "devtest"
    /\ idx' = 0
    /\ last' = [kind |-> "update_config"]
    /\ UNCHANGED <<train_datasets, dev_dataloaders_list, test_dataloaders_list, pp, run>>

Next ==
    \/ CheckArgsFail
    \/ CheckArgs
    \/ TrainSkip
    \/ TrainAssertFail
    \/ TrainRegister
    \/ TrainFinish

Spec == Init /\ [][Next]_vars

(* ------------- MTDNNDataProcess._process_dev_test_datasets ------------- *)

DataLoader(data_set) == [data_set |-> data_set]

DevTestTaskId_PerTaskOnly(s, prefix) ==
    IF prefix \in DOMAIN s.tasks THEN s.tasks[prefix] ELSE DictLen(s.tasks)

DevTestTaskId(s, prefix) ==
    IF s.config.mtl_opt > 0
    THEN s.tasks_class[task_defs.n_class_map[prefix]]
    ELSE s.tasks[prefix]

(* The exception, if any, that one iteration of the dev/test loop raises.  *)
DevTestError(s, dataset) ==
    LET prefix == Split0(dataset)
    IN  IF s.config.mtl_opt > 0 /\ prefix \notin DOMAIN task_defs.n_class_map
        THEN "KeyError"
        ELSE IF s.config.mtl_opt > 0
                /\ task_defs.n_class_map[prefix] \notin DOMAIN s.tasks_class
        THEN "KeyError"
        ELSE IF ~(s.config.mtl_opt > 0) /\ prefix \notin DOMAIN s.tasks
        THEN "KeyError"
        ELSE IF prefix \notin DOMAIN task_defs.task_type_map
        THEN "KeyError"
        ELSE IF prefix \notin DOMAIN task_defs.data_type_map
        THEN "AssertionError"
        ELSE "none"

DevTestSelf_RegistersUnseen(s, prefix) ==
    IF prefix \in DOMAIN s.tasks
    THEN s
    ELSE [s EXCEPT !.tasks = s.tasks @@ (prefix :> DictLen(s.tasks))]

(* One iteration of the dev/test loop assigns locals only: the object is   *)
(* the one it started with.                                                *)
DevTestSelf(s, prefix) == s

ProcessDevTestDataset(s, dataset, dev_exists, test_exists) ==
    LET prefix == Split0(dataset)
        task_id == DevTestTaskId(s, prefix)
        task_type == task_defs.task_type_map[prefix]
        pw_task == (task_type = "Ranking")
        data_type == task_defs.data_type_map[prefix]
        dev_data == IF dev_exists
                    THEN DataLoader(MTDNNSingleTaskDataset(dataset, "dev", FALSE,
                                                           task_id, task_type, data_type))
                    ELSE None
        test_data == IF test_exists
                     THEN DataLoader(MTDNNSingleTaskDataset(dataset, "test", FALSE,
                                                            task_id, task_type, data_type))
                     ELSE None
    IN  [self |-> DevTestSelf(s, prefix),
         dev_data |-> dev_data, test_data |-> test_data, task_id |-> task_id]

DevTestFail ==
    /\ pc = "devtest"
    /\ idx < Len(dp.test_datasets)
    /\ DevTestError(dp, At(dp.test_datasets, idx)) # "none"
    /\ pc' = DevTestError(dp, At(dp.test_datasets, idx))
    /\ last' = [kind |-> "devtest_fail", dataset |-> At(dp.test_datasets, idx)]
    /\ UNCHANGED <<dp, train_datasets, dev_dataloaders_list, test_dataloaders_list,
                   idx, pp, run>>

DevTestBind ==
    /\ pc = "devtest"
    /\ idx < Len(dp.test_datasets)
    /\ DevTestError(dp, At(dp.test_datasets, idx)) = "none"
    /\ \E dev_exists \in BOOLEAN, test_exists \in BOOLEAN :
         LET dataset == At(dp.test_datasets, idx)
             r == ProcessDevTestDataset(dp, dataset, dev_exists, test_exists)
         IN  /\ dp' = r.self
             /\ dev_dataloaders_list' = Append(dev_dataloaders_list, r.dev_data)
             /\ test_dataloaders_list' = Append(test_dataloaders_list, r.test_data)
             /\ last' = [kind |-> "devtest_bind", dataset |-> dataset,
                         task_id |-> r.task_id,
                         dev_exists |-> dev_exists, test_exists |-> test_exists]
    /\ idx' = idx + 1
    /\ UNCHANGED <<train_datasets, pc, pp, run>>

DevTestFinish ==
    /\ pc = "devtest"
    /\ idx = Len(dp.test_datasets)
    /\ pc' = "constructed"
    /\ last' = [kind |-> "devtest_done"]
    /\ UNCHANGED <<dp, train_datasets, dev_dataloaders_list, test_dataloaders_list,
                   idx, pp, run>>

(* get_train_dataloader, get_dev_dataloaders, get_test_dataloaders: each   *)
(* returns the attribute the constructor stored.                           *)
Getters == {"get_train_dataloader", "get_dev_dataloaders", "get_test_dataloaders"}

GetterValue(getter) ==
    IF getter = "get_train_dataloader" THEN train_datasets
    ELSE IF getter = "get_dev_dataloaders" THEN dev_dataloaders_list
    ELSE test_dataloaders_list

GetDataloaders ==
    /\ pc = "constructed"
    /\ \E getter \in Getters :
         last' = [kind |-> "getter", getter |-> getter, returned |-> GetterValue(getter)]
    /\ UNCHANGED <<dp, train_datasets, dev_dataloaders_list, test_dataloaders_list,
                   pc, idx, pp, run>>

(* The whole of _process_train_datasets as a function of the object state  *)
(* at its entry: the loop from position i on, then update_config.          *)
RECURSIVE TrainLoop(_, _, _)
TrainLoop(s, loaded, i) ==
    IF i = Len(s.train_datasets)
    THEN [ok |-> TRUE,
          self |-> [s EXCEPT !.config = update_config(s)],
          train_datasets |-> loaded]
    ELSE LET dataset == At(s.train_datasets, i)
             prefix == Split0(dataset)
         IN  IF AlreadyRegistered(s, dataset)
             THEN TrainLoop(s, loaded, i + 1)
             ELSE IF prefix \notin DOMAIN task_defs.n_class_map
                     \/ prefix \notin DOMAIN task_defs.data_type_map
             THEN [ok |-> FALSE, self |-> s, train_datasets |-> loaded]
             ELSE LET r == ProcessTrainDataset(s, dataset)
                  IN  TrainLoop(r.self, Append(loaded, r.loaded), i + 1)

DevTestTrainIds == {DsA, DsC, DsD}

TestIds == {DsAm, DsC, DsD, DsX}

DevTestAnswerOpts == {0, 2}

InitDevTest ==
    /\ \E mtl_opt \in MtlOpts, answer_opt \in DevTestAnswerOpts,
          trains \in ListsUpTo(DevTestTrainIds, MaxTrainDT) \ {<<>>},
          tests \in ListsUpTo(TestIds, MaxTest) \ {<<>>} :
            LET r == TrainLoop(NewDataProcess(NewConfig(mtl_opt, answer_opt),
                                              trains, tests), <<>>, 0)
            IN  /\ r.ok
                /\ dp = r.self
                /\ train_datasets = r.train_datasets
    /\ dev_dataloaders_list = <<>>
    /\ test_dataloaders_list = <<>>
    /\ pc = "devtest"
    /\ idx = 0
    /\ last = [kind |-> "update_config"]
    /\ pp = NoPipeline
    /\ run = NoRun

NextDevTest ==
    \/ DevTestFail
    \/ DevTestBind
    \/ DevTestFinish
    \/ GetDataloaders

SpecDevTest == InitDevTest /\ [][NextDevTest]_vars

(* The state in which the train loop hands over to the dev/test loop is    *)
(* the one TrainLoop computes.                                             *)
TrainLoopAgrees ==
    pc = "devtest" =>
        LET r == TrainLoop(NewDataProcess([dp.config EXCEPT !.decoder_opts = <<>>,
                                             !.task_types = <<>>,
                                             !.tasks_dropout_p = <<>>,
                                             !.loss_types = <<>>,
                                             !.kd_loss_types = <<>>,
                                             !.tasks_nclass_list = <<>>,
                                             !.writes = 0],
                                           dp.train_datasets, dp.test_datasets),
                           <<>>, 0)
        IN  r.ok /\ r.self = dp /\ r.train_datasets = train_datasets

(* ------------- MTDNNDataProcess.__init__ as a function ------------------ *)

(* The dev/test loop from position i on; exists[i + 1] tells which of the  *)
(* two split files of the i-th test identifier are on disk.                *)
RECURSIVE DevTestLoop(_, _, _, _, _)
DevTestLoop(s, exists, devs, tests, i) ==
    IF i = Len(s.test_datasets)
    THEN [ok |-> TRUE, dev_dataloaders_list |-> devs, test_dataloaders_list |-> tests]
    ELSE IF DevTestError(s, At(s.test_datasets, i)) # "none"
    THEN [ok |-> FALSE, dev_dataloaders_list |-> devs, test_dataloaders_list |-> tests]
    ELSE LET r == ProcessDevTestDataset(s, At(s.test_datasets, i),
                                        At(exists, i).dev, At(exists, i).test)
         IN  DevTestLoop(r.self, exists, Append(devs, r.dev_data),
                         Append(tests, r.test_data), i + 1)

Constructed(config, trains, tests, exists) ==
    LET t == TrainLoop(NewDataProcess(config, trains, tests), <<>>, 0)
        d == DevTestLoop(t.self, exists, <<>>, <<>>, 0)
    IN  [ok |-> Len(trains) >= 1 /\ Len(tests) >= 1 /\ t.ok /\ d.ok,
         self |-> t.self,
         train_datasets |-> t.train_datasets,
         dev_dataloaders_list |-> d.dev_dataloaders_list,
         test_dataloaders_list |-> d.test_dataloaders_list]

(* -------------------------- MTDNNPipelineProcess ----------------------- *)

(* Names bound at module level: the imports, the logger and the classes.   *)
ModuleGlobals ==
    {"json", "logging", "os", "random", "datetime", "torch", "SummaryWriter",
     "BatchSampler", "DataLoader", "Dataset", "submit", "TaskType",
     "MTDNNCommonUtils", "MTDNNConfig", "MTDNNCollater",
     "MTDNNMultiTaskBatchSampler", "MTDNNMultiTaskDataset",
     "MTDNNSingleTaskDataset", "MTDNNModel", "TaskDefs", "logger",
     "MTDNNDataProcess", "MTDNNPipelineProcess"}

(* Names bound in the body of fit when the checkpoint path is built.       *)
FitLocals ==
    {"self", "epochs", "epoch", "start", "idx", "batch_meta", "batch_data",
     "task_id", "time_left"}

(* Names bound in the body of predict.                                     *)
PredictLocals ==
    {"self", "idx", "dataset", "prefix", "label_dict", "dev_data", "test_data",
     "dev_metrics", "dev_predictions", "scores", "golds", "dev_ids",
     "test_metrics", "test_predictions", "test_ids", "key", "val",
     "score_file", "results", "official_score_file", "model_file"}

Defined(names, locals) == names \subseteq (locals \cup ModuleGlobals)

NewModel == [local_updates |-> 0, updates |-> 0, saved |-> <<>>, evals |-> 0]

(* model.update: one more local update; one more global update every       *)
(* grad_accumulation_step local updates.                                   *)
ModelUpdate(model, grad_accumulation_step) ==
    [model EXCEPT !.local_updates = model.local_updates + 1,
                  !.updates = IF (model.local_updates + 1) % grad_accumulation_step = 0
                              THEN model.updates + 1
                              ELSE model.updates]

NewPipeline(config, c) ==
    [model |-> NewModel,
     config |-> config,
     multitask_train_dataloader |->
         [len |-> config.batches,
          task_ids |-> {c.train_datasets[k].task_id : k \in 1..Len(c.train_datasets)}],
     dev_dataloaders_list |-> c.dev_dataloaders_list,
     test_dataloaders_list |-> c.test_dataloaders_list,
     test_datasets_list |-> c.self.test_datasets,
     tensor_board |-> [opened |-> 1, closed |-> 0, scalars |-> 0],
     written |-> <<>>]

LogDue_PerEpochIndex(local_updates, batch_idx, config) ==
    \/ batch_idx + 1 = 1
    \/ (batch_idx + 1) % (config.log_per_updates * config.grad_accumulation_step) = 0

LogDue(local_updates, batch_idx, config) ==
    \/ local_updates = 1
    \/ local_updates % (config.log_per_updates * config.grad_accumulation_step) = 0

SaveDue(local_updates, config) ==
    /\ config.save_per_updates_on
    /\ local_updates % (config.save_per_updates * config.grad_accumulation_step) = 0

(* One iteration of the batch loop of fit on a batch of the given task.    *)
FitBatchStep(p, r, task_id) ==
    LET model1 == ModelUpdate(p.model, p.config.grad_accumulation_step)
        logged == LogDue(model1.local_updates, r.idx, p.config)
        tb1 == IF logged /\ p.config.use_tensor_board
               THEN [p.tensor_board EXCEPT !.scalars = p.tensor_board.scalars + 1]
               ELSE p.tensor_board
        save_due == SaveDue(model1.local_updates, p.config)
        raises == save_due /\ ~Defined({"output_dir"}, FitLocals)
        model_file == [kind |-> "model", epoch |-> r.epoch, updates |-> model1.updates]
        model2 == IF save_due /\ ~raises
                  THEN [model1 EXCEPT !.saved = Append(model1.saved, model_file)]
                  ELSE model1
    IN  [self |-> [p EXCEPT !.model = model2, !.tensor_board = tb1],
         raises |-> raises,
         event |-> [kind |-> "fit_batch", epoch |-> r.epoch, idx |-> r.idx,
                    task_id |-> task_id,
                    local_updates |-> model1.local_updates,
                    logged |-> logged,
                    log_task_id |-> IF logged THEN task_id ELSE -1,
                    save_due |-> save_due,
                    saved |-> IF save_due /\ ~raises THEN <<model_file>> ELSE <<>>]]

PipelineConfigs ==
    [epochs : 1..MaxEpochs,
     batches : 1..MaxBatches,
     log_per_updates : 1..MaxPer,
     save_per_updates : 1..MaxPer,
     grad_accumulation_step : 1..MaxGas,
     save_per_updates_on : BOOLEAN,
     use_tensor_board : BOOLEAN,
     use_glue_format : BOOLEAN]

FitTrainList == <<DsA, DsC>>

FitTestList == <<DsAm>>

InitFit ==
    /\ \E mtl_opt \in MtlOpts, config \in PipelineConfigs :
         LET c == Constructed(NewConfig(mtl_opt, 0), FitTrainList, FitTestList,
                              <<[dev |-> TRUE, test |-> TRUE]>>)
         IN  /\ c.ok
             /\ ~config.use_glue_format
             /\ dp = c.self
             /\ train_datasets = c.train_datasets
             /\ dev_dataloaders_list = c.dev_dataloaders_list
             /\ test_dataloaders_list = c.test_dataloaders_list
             /\ pp = NewPipeline(config, c)
    /\ pc = "constructed"
    /\ idx = 0
    /\ last = NoLast
    /\ run = [state |-> "idle"]

FitCall ==
    /\ run.state = "idle"
    /\ \E epochs \in 0..MaxEpochs :
         run' = [state |-> "fit",
                 epochs |-> IF epochs # 0 THEN epochs ELSE pp.config.epochs,
                 epoch |-> 0, idx |-> 0, updates |-> 0, arg |-> epochs]
    /\ last' = [kind |-> "fit_call"]
    /\ UNCHANGED <<dp, train_datasets, dev_dataloaders_list, test_dataloaders_list,
                   pc, idx, pp>>

FitBatch ==
    /\ run.state = "fit"
    /\ run.epoch < run.epochs
    /\ run.idx < pp.multitask_train_dataloader.len
    /\ \E task_id \in pp.multitask_train_dataloader.task_ids :
         LET r == FitBatchStep(pp, run, task_id)
             last_of_epoch == run.idx + 1 = pp.multitask_train_dataloader.len
         IN  /\ pp' = r.self
             /\ last' = r.event
             /\ run' = IF r.raises
                       THEN [run EXCEPT !.state = "NameError",
                                        !.updates = run.updates + 1]
                       ELSE [run EXCEPT !.updates = run.updates + 1,
                                        !.epoch = IF last_of_epoch
                                                  THEN run.epoch + 1 ELSE run.epoch,
                                        !.idx = IF last_of_epoch THEN 0 ELSE run.idx + 1]
    /\ UNCHANGED <<dp, train_datasets, dev_dataloaders_list, test_dataloaders_list,
                   pc, idx>>

OnUpdateFailure_Retries(r) == r

(* model.update raised: fit has no handler around the call, so the         *)
(* exception leaves fit.                                                   *)
OnUpdateFailure(r) == [r EXCEPT !.state = "UpdateError"]

FitUpdateFails ==
    /\ run.state = "fit"
    /\ run.epoch < run.epochs
    /\ run.idx < pp.multitask_train_dataloader.len
    /\ \E task_id \in pp.multitask_train_dataloader.task_ids :
         last' = [kind |-> "update_failed", epoch |-> run.epoch, idx |-> run.idx,
                  task_id |-> task_id]
    /\ run' = OnUpdateFailure(run)
    /\ UNCHANGED <<dp, train_datasets, dev_dataloaders_list, test_dataloaders_list,
                   pc, idx, pp>>

FitReturn ==
    /\ run.state = "fit"
    /\ run.epoch = run.epochs
    /\ run' = [run EXCEPT !.state = "fit_returned"]
    /\ last' = [kind |-> "fit_return"]
    /\ UNCHANGED <<dp, train_datasets, dev_dataloaders_list, test_dataloaders_list,
                   pc, idx, pp>>

NextFit ==
    \/ FitCall
    \/ FitBatch
    \/ FitUpdateFails
    \/ FitReturn

SpecFit == InitFit /\ [][NextFit]_vars

(* ------------------- MTDNNPipelineProcess.predict ---------------------- *)

close_connections(p) ==
    IF p.config.use_tensor_board
    THEN [p EXCEPT !.tensor_board.closed = p.tensor_board.closed + 1]
    ELSE p

ScoreFile(kind, k, dataset, split) ==
    [kind |-> kind, idx |-> k, dataset |-> dataset, split |-> split]

(* The dev phase or the test phase of the k-th test identifier: the names  *)
(* it reads are looked up in the order the statements read them.           *)
PredictPhase(p, k, split) ==
    LET dataset == At(p.test_datasets_list, k)
        loader == IF split = "dev" THEN At(p.dev_dataloaders_list, k)
                  ELSE At(p.test_dataloaders_list, k)
        evaluated == [p EXCEPT !.model.evals = p.model.evals + 1]
        logged == IF split = "dev" /\ p.config.use_tensor_board
                  THEN [evaluated EXCEPT !.tensor_board.scalars =
                                             evaluated.tensor_board.scalars + 1]
                  ELSE evaluated
        dumped == [logged EXCEPT !.written =
                       Append(logged.written, ScoreFile("score_json", k, dataset, split))]
        submitted == [dumped EXCEPT !.written =
                       Append(dumped.written, ScoreFile("submission", k, dataset, split))]
    IN  IF loader = None
        THEN [self |-> p, raises |-> FALSE]
        ELSE IF ~Defined({"task_defs", "args"}, PredictLocals)
        THEN [self |-> p, raises |-> TRUE]
        ELSE IF ~Defined({"epoch", "output_dir"}, PredictLocals)
        THEN [self |-> evaluated, raises |-> TRUE]
        ELSE IF split = "dev"
        THEN [self |-> IF p.config.use_glue_format THEN submitted ELSE dumped,
              raises |-> FALSE]
        ELSE [self |-> dumped, raises |-> ~Defined({"args"}, PredictLocals)]

PredictConfigs ==
    {c \in PipelineConfigs :
        /\ c.epochs = 1 /\ c.batches = 1 /\ c.log_per_updates = 1
        /\ c.save_per_updates = 1 /\ c.grad_accumulation_step = 1
        /\ ~c.save_per_updates_on}

PredictTestIds == {DsAm, DsC}

InitPredict ==
    /\ \E mtl_opt \in MtlOpts, config \in PredictConfigs,
          tests \in ListsUpTo(PredictTestIds, MaxTest) \ {<<>>} :
         \E exists \in [1..Len(tests) -> [dev : BOOLEAN, test : BOOLEAN]] :
             LET c == Constructed(NewConfig(mtl_opt, 0), FitTrainList, tests, exists)
             IN  /\ c.ok
                 /\ dp = c.self
                 /\ train_datasets = c.train_datasets
                 /\ dev_dataloaders_list = c.dev_dataloaders_list
                 /\ test_dataloaders_list = c.test_dataloaders_list
                 /\ pp = NewPipeline(config, c)
                 /\ last = [kind |-> "constructed", exists |-> exists]
    /\ pc = "constructed"
    /\ idx = 0
    /\ run = [state |-> "idle"]

PredictCall ==
    /\ run.state = "idle"
    /\ run' = [state |-> "predict", idx |-> 0,
               exists |-> IF "exists" \in DOMAIN last THEN last.exists ELSE <<>>]
    /\ last' = [kind |-> "predict_call"]
    /\ UNCHANGED <<dp, train_datasets, dev_dataloaders_list, test_dataloaders_list,
                   pc, idx, pp>>

PredictDataset ==
    /\ run.state = "predict"
    /\ run.idx < Len(pp.test_datasets_list)
    /\ LET d == PredictPhase(pp, run.idx, "dev")
           e == IF d.raises THEN d ELSE PredictPhase(d.self, run.idx, "test")
       IN  /\ pp' = e.self
           /\ run' = IF e.raises
                     THEN [run EXCEPT !.state = "NameError"]
                     ELSE [run EXCEPT !.idx = run.idx + 1]
           /\ last' = [kind |-> "predict_dataset", idx |-> run.idx,
                       raised_in |-> IF d.raises THEN "dev"
                                     ELSE IF e.raises THEN "test" ELSE "none"]
    /\ UNCHANGED <<dp, train_datasets, dev_dataloaders_list, test_dataloaders_list,
                   pc, idx>>

PredictFinish ==
    /\ run.state = "predict"
    /\ run.idx = Len(pp.test_datasets_list)
    /\ IF Defined({"output_dir", "epoch"}, PredictLocals)
       THEN /\ pp' = close_connections(
                       [pp EXCEPT !.model.saved =
                            Append(pp.model.saved, [kind |-> "model", epoch |-> "epoch"])])
            /\ run' = [run EXCEPT !.state = "predict_returned"]
       ELSE /\ pp' = pp
            /\ run' = [run EXCEPT !.state = "NameError"]
    /\ last' = [kind |-> "predict_finish"]
    /\ UNCHANGED <<dp, train_datasets, dev_dataloaders_list, test_dataloaders_list,
                   pc, idx>>

NextPredict ==
    \/ PredictCall
    \/ PredictDataset
    \/ PredictFinish

SpecPredict == InitPredict /\ [][NextPredict]_vars

(* ------------ MTDNNPipelineProcess: sequences of calls ----------------- *)

PipeConfigs ==
    {c \in PipelineConfigs :
        /\ c.epochs = 1 /\ c.batches = 1 /\ c.log_per_updates = 1
        /\ c.save_per_updates = 1 /\ c.grad_accumulation_step = 1
        /\ ~c.use_glue_format}

InitPipe ==
    /\ \E config \in PipeConfigs,
          exists \in [1..Len(FitTestList) -> [dev : BOOLEAN, test : BOOLEAN]] :
         LET c == Constructed(NewConfig(0, 0), FitTrainList, FitTestList, exists)
         IN  /\ c.ok
             /\ dp = c.self
             /\ train_datasets = c.train_datasets
             /\ dev_dataloaders_list = c.dev_dataloaders_list
             /\ test_dataloaders_list = c.test_dataloaders_list
             /\ pp = [calls |-> 0] @@ NewPipeline(config, c)
             /\ last = [kind |-> "constructed", exists |-> exists]
    /\ pc = "constructed"
    /\ idx = 0
    /\ run = [state |-> "idle"]

CloseConnectionsCall ==
    /\ run.state = "idle"
    /\ pp' = close_connections(pp)
    /\ run' = [state |-> "close_returned"]
    /\ last' = [kind |-> "close_connections"]
    /\ UNCHANGED <<dp, train_datasets, dev_dataloaders_list, test_dataloaders_list,
                   pc, idx>>

(* The caller has the pipeline back, after a return or after an exception  *)
(* it caught, and may call it again.                                       *)
CallerResumes ==
    /\ run.state \in {"fit_returned", "predict_returned", "close_returned",
                      "NameError", "UpdateError"}
    /\ pp.calls + 1 < MaxCalls
    /\ pp' = [pp EXCEPT !.calls = pp.calls + 1]
    /\ run' = [state |-> "idle"]
    /\ last' = [kind |-> "caller", after |-> last.kind, outcome |-> run.state]
    /\ UNCHANGED <<dp, train_datasets, dev_dataloaders_list, test_dataloaders_list,
                   pc, idx>>

NextPipe ==
    \/ FitCall
    \/ FitBatch
    \/ FitUpdateFails
    \/ FitReturn
    \/ PredictCall
    \/ PredictDataset
    \/ PredictFinish
    \/ CloseConnectionsCall
    \/ CallerResumes

SpecPipe == InitPipe /\ [][NextPipe]_vars

(* ------------------ properties of task registration -------------------- *)

Registered == DOMAIN dp.tasks

NClassOf(p) == task_defs.n_class_map[p]

SharingOn == dp.config.mtl_opt > 0

NumIds == IF SharingOn THEN DictLen(dp.tasks_class) ELSE DictLen(dp.tasks)

SetMin(S) == CHOOSE m \in S : \A x \in S : m <= x

RECURSIVE FirstSeen(_)
FirstSeen(list) ==
    IF list = <<>> THEN <<>>
    ELSE LET d == FirstSeen(SubSeq(list, 1, Len(list) - 1))
             x == list[Len(list)]
         IN  IF x \in Range(d) THEN d ELSE Append(d, x)

LoadedPrefixes == [k \in 1..Len(train_datasets) |-> Split0(train_datasets[k].dataset)]

LoadedLabelCounts == [k \in 1..Len(train_datasets) |-> NClassOf(LoadedPrefixes[k])]

SharingPrefixes(n) == {p \in Registered : NClassOf(p) = n}

IndividualDopt(p) ==
    IF task_defs.enable_san_map[p] /\ dp.config.answer_opt \in {0, 1, 2}
    THEN dp.config.answer_opt
    ELSE 0

(* C1: once update_config has written the config, decoder_opts, task_types, *)
(* tasks_dropout_p, loss_types, kd_loss_types and tasks_nclass_list all     *)
(* have the same length, the number of distinct ids of the active policy.   *)
C1_SixSequencesSameLength ==
    pc = "devtest" =>
        /\ Len(dp.config.decoder_opts) = NumIds
        /\ Len(dp.config.task_types) = NumIds
        /\ Len(dp.config.tasks_dropout_p) = NumIds
        /\ Len(dp.config.loss_types) = NumIds
        /\ Len(dp.config.kd_loss_types) = NumIds
        /\ Len(dp.config.tasks_nclass_list) = NumIds

(* C2: with class sharing on, the decoder_opts entry of every task-class id *)
(* is the minimum of the decoder options of all registered prefixes that    *)
(* have that label count, whatever the order they were registered in.       *)
C2_SharedDecoderOptIsMin ==
    SharingOn =>
        \A n \in DOMAIN dp.tasks_class :
            /\ dp.tasks_class[n] < Len(dp.decoder_opts)
            /\ SharingPrefixes(n) # {}
            /\ At(dp.decoder_opts, dp.tasks_class[n])
                 = SetMin({IndividualDopt(p) : p \in SharingPrefixes(n)})

C2_Witness ==
    /\ SharingOn
    /\ pc = "devtest"
    /\ Cardinality(SharingPrefixes(3)) >= 3
    /\ last.kind = "update_config"
    /\ IndividualDopt(LoadedPrefixes[1]) = 0
    /\ IndividualDopt(LoadedPrefixes[Len(train_datasets)]) > 0
    /\ At(dp.decoder_opts, dp.tasks_class[3]) = 0

(* C3: with class sharing on, nclass_list holds every distinct label count  *)
(* of the registered prefixes exactly once, in first-seen order, at the     *)
(* index that is its task_class_id.                                         *)
C3_SharedLabelCountsOnce ==
    SharingOn =>
        /\ DOMAIN dp.tasks_class = {NClassOf(p) : p \in Registered}
        /\ Len(dp.nclass_list) = DictLen(dp.tasks_class)
        /\ \A n \in DOMAIN dp.tasks_class : At(dp.nclass_list, dp.tasks_class[n]) = n
        /\ \A j, k \in 1..Len(dp.nclass_list) :
               dp.nclass_list[j] = dp.nclass_list[k] => j = k
        /\ dp.nclass_list = FirstSeen(LoadedLabelCounts)

C3_Witness ==
    /\ SharingOn
    /\ pc = "devtest"
    /\ DictLen(dp.tasks) = 3
    /\ dp.nclass_list = <<2, 3>>

(* C4: with class sharing off, every prefix has its own task id, the ids    *)
(* are dense from 0 in first-seen order, each train dataset is tagged with  *)
(* the id of its prefix, and nclass_list has one entry per prefix, the      *)
(* label count of the prefix with that id.                                  *)
C4_UnsharedIdsDense ==
    ~SharingOn =>
        /\ Len(train_datasets) = DictLen(dp.tasks)
        /\ Registered = Range(LoadedPrefixes)
        /\ \A k \in 1..Len(train_datasets) :
               /\ dp.tasks[LoadedPrefixes[k]] = k - 1
               /\ train_datasets[k].task_id = k - 1
        /\ \A p, q \in Registered : dp.tasks[p] = dp.tasks[q] => p = q
        /\ Len(dp.nclass_list) = DictLen(dp.tasks)
        /\ \A p \in Registered : At(dp.nclass_list, dp.tasks[p]) = NClassOf(p)

C4_Witness ==
    /\ ~SharingOn
    /\ pc = "devtest"
    /\ dp.nclass_list = <<3, 2, 3>>

(* C5: processing a train dataset whose prefix is already registered        *)
(* changes neither the maps, nor any config sequence, nor the list of       *)
(* train datasets: the loop only moves on to the next identifier.           *)
C5_DuplicatePrefixIsNoOp ==
    [][(/\ pc = "train"
        /\ idx < Len(dp.train_datasets)
        /\ Split0(At(dp.train_datasets, idx)) \in DOMAIN dp.tasks)
       => (/\ dp' = dp
           /\ train_datasets' = train_datasets
           /\ pc' = "train"
           /\ idx' = idx + 1)]_vars

C5_Witness ==
    /\ last.kind = "train_skip"
    /\ last.dataset = DsAm
    /\ DsA \in Range([k \in 1..Len(train_datasets) |-> train_datasets[k].dataset])
    /\ Len(dp.task_types) = 2

(* C6: generate_decoder_opt returns max_opt when enable_san is true and     *)
(* max_opt is below 3, and 0 otherwise: (TRUE, 2) gives 2, (TRUE, 3) gives  *)
(* 0 and (FALSE, 2) gives 0.                                                *)
C6_DecoderOptTable ==
    last.kind = "train_register" =>
        LET c == last.call
        IN  /\ (c.enable_san /\ c.max_opt \in {0, 1, 2} => c.dopt = c.max_opt)
            /\ (~c.enable_san => c.dopt = 0)
            /\ (c.max_opt >= 3 => c.dopt = 0)
            /\ (c.enable_san /\ c.max_opt = 2 => c.dopt = 2)
            /\ (c.enable_san /\ c.max_opt = 3 => c.dopt = 0)
            /\ (~c.enable_san /\ c.max_opt = 2 => c.dopt = 0)

C6_Witness ==
    /\ last.kind = "train_register"
    /\ last.call = [enable_san |-> TRUE, max_opt |-> 3, dopt |-> 0]

(* ------------------- properties of dev/test binding -------------------- *)

(* Whether train registration assigned the id the sharing policy looks up  *)
(* for this prefix.                                                        *)
IdAssigned(prefix) ==
    IF SharingOn
    THEN /\ prefix \in DOMAIN task_defs.n_class_map
         /\ NClassOf(prefix) \in DOMAIN dp.tasks_class
    ELSE prefix \in DOMAIN dp.tasks

PolicyId(prefix) ==
    IF SharingOn THEN dp.tasks_class[NClassOf(prefix)] ELSE dp.tasks[prefix]

(* C10: a test dataset is tagged with the id the sharing policy gives its  *)
(* prefix (task_class_id of its label count when sharing, else task_id):   *)
(* the id the train dataset of that prefix was tagged with, and an index   *)
(* of decoder_opts. When no such id was assigned, construction fails and   *)
(* no dataloader entry is produced.                                        *)
C10_TestIdFollowsTrainRule ==
    [][(pc = "devtest" /\ idx < Len(dp.test_datasets)) =>
        LET dataset == At(dp.test_datasets, idx)
            prefix == Split0(dataset)
        IN  IF IdAssigned(prefix)
            THEN /\ last'.kind = "devtest_bind"
                 /\ last'.task_id = PolicyId(prefix)
                 /\ last'.task_id >= 0
                 /\ last'.task_id < Len(dp.config.decoder_opts)
                 /\ \A k \in 1..Len(train_datasets) :
                        Split0(train_datasets[k].dataset) = prefix
                            => train_datasets[k].task_id = last'.task_id
                 /\ Len(dev_dataloaders_list') = Len(dev_dataloaders_list) + 1
                 /\ Len(test_dataloaders_list') = Len(test_dataloaders_list) + 1
                 /\ LET d == dev_dataloaders_list'[Len(dev_dataloaders_list')]
                        e == test_dataloaders_list'[Len(test_dataloaders_list')]
                    IN  /\ (d # None => d.data_set.task_id = last'.task_id)
                        /\ (e # None => e.data_set.task_id = last'.task_id)
            ELSE /\ pc' \in {"KeyError", "AssertionError"}
                 /\ dev_dataloaders_list' = dev_dataloaders_list
                 /\ test_dataloaders_list' = test_dataloaders_list
       ]_vars

C10_Witness ==
    /\ SharingOn
    /\ last.kind = "devtest_bind"
    /\ last.dataset = DsAm
    /\ last.task_id = 1
    /\ \E k \in 1..Len(train_datasets) :
           /\ train_datasets[k].dataset = DsA
           /\ train_datasets[k].task_id = 1
    /\ Len(dev_dataloaders_list) = 2
    /\ dev_dataloaders_list[2] # None

(* ------------------------- properties of fit --------------------------- *)

LogPeriod == pp.config.log_per_updates * pp.config.grad_accumulation_step

SavePeriod == pp.config.save_per_updates * pp.config.grad_accumulation_step

(* C7: after every model update of a run, whatever the epoch, a training   *)
(* log event has been emitted exactly when the model's local update count  *)
(* (the number of updates of the whole run) is 1 or a multiple of          *)
(* log_per_updates * grad_accumulation_step, and it carries the task id of *)
(* the batch just processed.                                               *)
C7_LogCadence ==
    last.kind = "fit_batch" =>
        /\ pp.model.local_updates = run.updates
        /\ last.logged <=> (pp.model.local_updates = 1
                            \/ pp.model.local_updates % LogPeriod = 0)
        /\ (last.logged => last.log_task_id = last.task_id)

C7_Witness ==
    /\ last.kind = "fit_batch"
    /\ last.logged
    /\ last.epoch = 1
    /\ last.idx = 1
    /\ pp.model.local_updates = 4
    /\ LogPeriod = 4

(* C8: after a model update, a checkpoint whose path names the current     *)
(* epoch and the model's global update count has been persisted exactly    *)
(* when save_per_updates_on is set and the local update count is a         *)
(* multiple of save_per_updates * grad_accumulation_step; fit persists no  *)
(* other checkpoint.                                                       *)
C8_CheckpointCadence ==
    /\ last.kind = "fit_batch" =>
         IF pp.config.save_per_updates_on /\ pp.model.local_updates % SavePeriod = 0
         THEN /\ last.saved = <<[kind |-> "model", epoch |-> last.epoch,
                                 updates |-> pp.model.updates]>>
              /\ Len(pp.model.saved) >= 1
              /\ pp.model.saved[Len(pp.model.saved)] = last.saved[1]
         ELSE last.saved = <<>>
    /\ run.state \in {"fit", "fit_returned"} =>
         Len(pp.model.saved) =
             Cardinality({u \in 1..pp.model.local_updates :
                             pp.config.save_per_updates_on /\ u % SavePeriod = 0})

(* ----------------------- properties of predict ------------------------- *)

ScoresFor(k, split) ==
    {j \in 1..Len(pp.written) :
        /\ pp.written[j].kind = "score_json"
        /\ pp.written[j].idx = k
        /\ pp.written[j].split = split}

(* C9: the dev and test dataloader lists have one entry per test           *)
(* identifier, None exactly for a split whose file is absent; once predict *)
(* is over, a split without dataloader has no score JSON and a split with  *)
(* a dataloader has exactly one.                                           *)
C9_MissingSplitSkipped ==
    run.state \in {"predict_returned", "NameError"} =>
        /\ Len(pp.dev_dataloaders_list) = Len(pp.test_datasets_list)
        /\ Len(pp.test_dataloaders_list) = Len(pp.test_datasets_list)
        /\ \A k \in 0..(Len(pp.test_datasets_list) - 1) :
             /\ (At(pp.dev_dataloaders_list, k) = None) <=> ~At(run.exists, k).dev
             /\ (At(pp.test_dataloaders_list, k) = None) <=> ~At(run.exists, k).test
             /\ Cardinality(ScoresFor(k, "dev"))
                  = IF At(pp.dev_dataloaders_list, k) = None THEN 0 ELSE 1
             /\ Cardinality(ScoresFor(k, "test"))
                  = IF At(pp.test_dataloaders_list, k) = None THEN 0 ELSE 1

(* --------------------- properties of the pipeline ---------------------- *)

PredictOver ==
    \/ run.state = "predict_returned"
    \/ run.state = "NameError" /\ last.kind \in {"predict_dataset", "predict_finish"}

(* C11: the monitoring sink is opened once, at construction; it is never   *)
(* closed more often than it was opened, never closed more than once, and  *)
(* when predict is over the sink that was opened has been closed.          *)
C11_SinkOpenedOnceClosedOnce ==
    /\ pp.tensor_board.opened = 1
    /\ pp.tensor_board.closed <= pp.tensor_board.opened
    /\ pp.tensor_board.closed <= 1
    /\ (PredictOver => pp.tensor_board.closed = pp.tensor_board.opened)

(* C13: a failing model.update leaves fit at once: the failing call        *)
(* produces no log event, no metric and no checkpoint, and after it fit    *)
(* takes no further step (no retry, no later batch).                       *)
C13_UpdateFailureIsFatal ==
    [][/\ last.kind # "update_failed"
       /\ (last'.kind = "update_failed" =>
              /\ run'.state = "UpdateError"
              /\ run'.updates = run.updates
              /\ pp'.tensor_board = pp.tensor_board
              /\ pp'.model.saved = pp.model.saved
              /\ pp'.written = pp.written)]_vars

C13_Witness ==
    /\ last.kind = "update_failed"
    /\ run.state = "UpdateError"
    /\ run.updates = 1
    /\ last.epoch = 0
    /\ last.idx = 1
    /\ run.epochs = 2

(* ---------------- properties of construction failures ---------------- *)

Resolvable(prefix) ==
    /\ prefix \in DOMAIN task_defs.n_class_map
    /\ prefix \in DOMAIN task_defs.data_type_map

BadConstruction ==
    \/ Len(dp.train_datasets) < 1
    \/ Len(dp.test_datasets) < 1
    \/ \E k \in 1..Len(dp.train_datasets) : ~Resolvable(Split0(dp.train_datasets[k]))

(* C12: a construction with an empty train or test list, or with a train   *)
(* prefix absent from the task-definition maps, never gets past train      *)
(* registration, and when it has failed no single-task dataset has been    *)
(* loaded and no dataloader has been built.                                *)
C12_ErrorsSurfaceFast ==
    /\ (BadConstruction => pc # "devtest")
    /\ (pc = "AssertionError" =>
           /\ train_datasets = <<>>
           /\ dev_dataloaders_list = <<>>
           /\ test_dataloaders_list = <<>>)

(* C14: entry i of every sequence describes every registered prefix whose  *)
(* id under the active policy is i.                                        *)
C14_EntryDescribesItsId ==
    \A p \in Registered :
        LET i == PolicyId(p)
        IN  /\ i < Len(dp.task_types)
            /\ At(dp.task_types, i) = task_defs.task_type_map[p]
            /\ At(dp.loss_types, i) = task_defs.loss_map[p]
            /\ At(dp.kd_loss_types, i) = task_defs.kd_loss_map[p]
            /\ At(dp.dropout_list, i) = DropoutFor(dp, p)
            /\ i < Len(dp.nclass_list)
            /\ At(dp.nclass_list, i) = NClassOf(p)

(* The positions of the train list the loop has gone through where a      *)
(* prefix occurs for the first time.                                       *)
FirstOccurrences ==
    LET n == IF pc = "devtest" THEN Len(dp.train_datasets) ELSE idx
    IN  {k \in 1..n : \A j \in 1..(k - 1) :
            Split0(dp.train_datasets[j]) # Split0(dp.train_datasets[k])}

C15_Shape ==
    LET firsts == FirstOccurrences
    IN  /\ Registered = {Split0(dp.train_datasets[k]) : k \in firsts}
        /\ Len(dp.task_types) = Cardinality(firsts)
        /\ Len(dp.loss_types) = Cardinality(firsts)
        /\ Len(dp.kd_loss_types) = Cardinality(firsts)
        /\ Len(dp.dropout_list) = Cardinality(firsts)
        /\ \A k \in firsts :
             LET p == Split0(dp.train_datasets[k])
                 m == Cardinality({j \in firsts : j <= k})
             IN  /\ dp.task_types[m] = task_defs.task_type_map[p]
                 /\ dp.loss_types[m] = task_defs.loss_map[p]
                 /\ dp.kd_loss_types[m] = task_defs.kd_loss_map[p]
                 /\ dp.dropout_list[m] = DropoutFor(dp, p)
        /\ Len(dp.decoder_opts) = NumIds
        /\ Len(dp.nclass_list) = NumIds

C15_NewId ==
    (pc = "train" /\ last'.kind = "train_register") =>
        LET task_id == last'.task_id
        IN  /\ task_id <= Len(dp.decoder_opts)
            /\ IF task_id = Len(dp.decoder_opts)
               THEN dp'.decoder_opts = Append(dp.decoder_opts, last'.call.dopt)
               ELSE /\ Len(dp'.decoder_opts) = Len(dp.decoder_opts)
                    /\ NumIds' = NumIds

(* C15: task_types, loss_types, kd_loss_types and dropout_list hold one    *)
(* entry per registered prefix in first-seen order; decoder_opts and       *)
(* nclass_list hold one entry per id of the active policy; a new id is the *)
(* length of decoder_opts, so an entry is reconciled only when it exists.  *)
C15_PerPrefixAndPerIdLengths ==
    [][C15_Shape /\ C15_Shape' /\ C15_NewId]_vars

C15_Witness ==
    /\ SharingOn
    /\ pc = "devtest"
    /\ Len(dp.task_types) = 3
    /\ Len(dp.decoder_opts) = 2
    /\ dp.train_datasets = <<DsA, DsB, DsC>>

(* C20: while the train loop has not finished, and when it has failed on   *)
(* an unresolvable prefix, the configuration object holds none of the six  *)
(* sequences: update_config has not written to it.                         *)
C20_FailedRegistrationLeavesConfig ==
    pc # "devtest" =>
        /\ dp.config.writes = 0
        /\ dp.config.decoder_opts = <<>>
        /\ dp.config.task_types = <<>>
        /\ dp.config.tasks_dropout_p = <<>>
        /\ dp.config.loss_types = <<>>
        /\ dp.config.kd_loss_types = <<>>
        /\ dp.config.tasks_nclass_list = <<>>

C20_Witness ==
    /\ pc = "AssertionError"
    /\ last.kind = "train_assert"
    /\ idx = 2
    /\ Len(dp.task_types) = 2
    /\ dp.config.task_types = <<>>

(* C19: in the dev/test loop and in the getters the registry and the six   *)
(* sequences of the object and of its config stay what update_config left, *)
(* and the config has been written once.                                   *)
C19_RegistryFrozenAfterMerge ==
    [][/\ dp' = dp
       /\ dp.config.writes = 1
       /\ dp.config.decoder_opts = dp.decoder_opts
       /\ dp.config.task_types = dp.task_types
       /\ dp.config.tasks_dropout_p = dp.dropout_list
       /\ dp.config.loss_types = dp.loss_types
       /\ dp.config.kd_loss_types = dp.kd_loss_types
       /\ dp.config.tasks_nclass_list = dp.nclass_list]_vars

C19_Witness ==
    /\ pc = "constructed"
    /\ last.kind = "getter"
    /\ SharingOn
    /\ \E k \in 1..Len(dp.test_datasets) : Split0(dp.test_datasets[k]) \notin Registered
    /\ Len(dev_dataloaders_list) = 2
    /\ dp.config.writes = 1

(* ------------------- properties of a whole fit call -------------------- *)

(* C16: fit with epochs argument e (config.epochs when e is 0) and B       *)
(* batches per epoch passes the batches to model.update one at a time in   *)
(* dataloader order, epoch after epoch; unless an update fails it does not *)
(* end before E * B updates, and then it returns.                          *)
C16_FitRunsEveryBatch ==
    LET B == pp.multitask_train_dataloader.len
    IN  run.state \in {"fit", "fit_returned", "NameError"} =>
            /\ run.epochs = IF run.arg # 0 THEN run.arg ELSE pp.config.epochs
            /\ (run.state = "fit" => run.updates = run.epoch * B + run.idx)
            /\ (last.kind = "fit_batch" =>
                   run.updates = last.epoch * B + last.idx + 1)
            /\ run.state # "NameError"
            /\ (run.state = "fit_returned" => run.updates = run.epochs * B)

(* ------------------ properties of a whole predict call ----------------- *)

FinalCheckpoints ==
    {j \in 1..Len(pp.model.saved) : pp.model.saved[j] = [kind |-> "model", epoch |-> "epoch"]}

(* C17: predict goes through the test identifiers in list order; while an  *)
(* identifier is still to be evaluated there is no final checkpoint and    *)
(* the sink is not released; when predict is over every identifier has     *)
(* been gone through and exactly one final checkpoint has been persisted.  *)
C17_FinalCheckpointAfterAllTasks ==
    /\ (last.kind = "predict_dataset" /\ run.state = "predict" => run.idx = last.idx + 1)
    /\ (run.state = "predict" =>
           /\ FinalCheckpoints = {}
           /\ pp.tensor_board.closed = 0)
    /\ (PredictOver =>
           /\ run.idx = Len(pp.test_datasets_list)
           /\ Cardinality(FinalCheckpoints) = 1
           /\ run.state = "predict_returned")

SubmissionsFor(k, split) ==
    {j \in 1..Len(pp.written) :
        /\ pp.written[j].kind = "submission"
        /\ pp.written[j].idx = k
        /\ pp.written[j].split = split}

(* C18: when predict is over, each split of each test identifier has an    *)
(* official submission file exactly when it has a dataloader (so a score   *)
(* JSON) and config.use_glue_format is on, the dev split and the test      *)
(* split alike.                                                            *)
C18_OfficialFileFollowsFlag ==
    PredictOver =>
        \A k \in 0..(Len(pp.test_datasets_list) - 1) :
            /\ Cardinality(SubmissionsFor(k, "dev"))
                 = IF At(pp.dev_dataloaders_list, k) # None /\ pp.config.use_glue_format
                   THEN 1 ELSE 0
            /\ Cardinality(SubmissionsFor(k, "test"))
                 = IF At(pp.test_dataloaders_list, k) # None /\ pp.config.use_glue_format
                   THEN 1 ELSE 0
            /\ Cardinality(SubmissionsFor(k, "dev")) <= Cardinality(ScoresFor(k, "dev"))
            /\ Cardinality(SubmissionsFor(k, "test")) <= Cardinality(ScoresFor(k, "test"))

====
